---------------------------- MODULE Spec2Model ----------------------------
(***************************************************************************)
(* FRA Atlas DSS: the claims aggregation and reporting pipeline.           *)
(*                                                                         *)
(*   src/js/components/dashboard.js   Dashboard  (aggregation, counters)   *)
(*   src/js/app.js                    FRAAtlasApp (init, load, export)     *)
(*                                                                         *)
(* Two specifications share the state:                                     *)
(*   Spec     the application's life cycle: init, the asynchronous data    *)
(*            load, export clicks and the delayed report build;            *)
(*   SpecAgg  Dashboard.updateFromData called directly on a batch drawn    *)
(*            from a bounded set (the aggregation as a function).          *)
(*                                                                         *)
(* JavaScript values are records [t, n, s]: t is the type tag ("num",      *)
(* "str", "undef", "nan"), n the value of a number, s the characters of a  *)
(* string.  Text is a sequence of one-character strings, so that           *)
(* toLowerCase, includes, String(n) and parseInt are computed, not         *)
(* assumed.  Areas are whole hectares.                                     *)
(***************************************************************************)
EXTENDS Integers, Sequences, FiniteSets

VARIABLES
    pc,          \* position of FRAAtlasApp.init: "init", "loading", "ready", "failed"
    listeners,   \* TRUE once initializeEventListeners has registered the click handlers
    loadedData,  \* FRAAtlasApp.loadedData
    dom,         \* the text of the dashboard's DOM elements
    agg,         \* locals of the last updateFromData call (what its log line prints)
    input,       \* the batch handed to a direct updateFromData call (SpecAgg)
    clicks,      \* export clicks handled so far (each one arms a 2000 ms timer)
    built,       \* export timers that have fired (reports built)
    report,      \* the last report handed to the download
    errorAlerts, \* error notifications shown by showError
    spinner      \* customLoadingElement.style.display

vars == <<pc, listeners, loadedData, dom, agg, input, clicks, built, report,
          errorAlerts, spinner>>

---------------------------------------------------------------------------
(* Bounds *)

MaxBatch == 2
MaxAggBatch == 2
MaxExports == 2
RandomSamples == 2

---------------------------------------------------------------------------
(* JavaScript values and text *)

Num(k) == [t |-> "num", n |-> k, s |-> <<>>]
Str(x) == [t |-> "str", n |-> 0, s |-> x]
Undefined == [t |-> "undef", n |-> 0, s |-> <<>>]
NaN == [t |-> "nan", n |-> 0, s |-> <<>>]

Digits == <<"0", "1", "2", "3", "4", "5", "6", "7", "8", "9">>
UpperAlpha == <<"A", "B", "C", "D", "E", "F", "G", "H", "I", "J", "K", "L", "M",
                "N", "O", "P", "Q", "R", "S", "T", "U", "V", "W", "X", "Y", "Z">>
LowerAlpha == <<"a", "b", "c", "d", "e", "f", "g", "h", "i", "j", "k", "l", "m",
                "n", "o", "p", "q", "r", "s", "t", "u", "v", "w", "x", "y", "z">>

\* String(k) for a non-negative integer k
RECURSIVE NumToString(_)
NumToString(k) ==
    IF k < 10 THEN <<Digits[k + 1]>>
    ELSE NumToString(k \div 10) \o <<Digits[(k % 10) + 1]>>

IsDigit(c) == \E i \in 1..10 : Digits[i] = c
DigitValue(c) == (CHOOSE i \in 1..10 : Digits[i] = c) - 1

\* the value of the leading run of decimal digits of x, reading from position i
RECURSIVE ParseDigits(_, _, _)
ParseDigits(x, i, acc) ==
    IF i > Len(x) \/ ~IsDigit(x[i]) THEN acc
    ELSE ParseDigits(x, i + 1, 10 * acc + DigitValue(x[i]))

\* parseInt(text): the leading digits, NaN when there are none
ParseInt(x) ==
    IF Len(x) = 0 \/ ~IsDigit(x[1]) THEN NaN ELSE Num(ParseDigits(x, 1, 0))

\* text || '0'
OrZeroText(x) == IF Len(x) = 0 THEN <<"0">> ELSE x

\* String(v) of a JavaScript value, as string concatenation and `${v}` produce it
JsToString(v) ==
    CASE v.t = "num" -> NumToString(v.n)
      [] v.t = "str" -> v.s
      [] v.t = "nan" -> <<"N", "a", "N">>
      [] OTHER -> <<"u", "n", "d", "e", "f", "i", "n", "e", "d">>

\* v is truthy
Truthy(v) ==
    CASE v.t = "num" -> v.n # 0
      [] v.t = "str" -> Len(v.s) > 0
      [] OTHER -> FALSE

\* v || 0
OrZero(v) == IF Truthy(v) THEN v ELSE Num(0)

\* a + b: numeric addition of two numbers, concatenation when either is a string
JsAdd(a, b) ==
    IF a.t = "str" \/ b.t = "str" THEN Str(JsToString(a) \o JsToString(b))
    ELSE IF a.t = "num" /\ b.t = "num" THEN Num(a.n + b.n)
    ELSE NaN

LowerChar(c) ==
    IF \E i \in 1..26 : UpperAlpha[i] = c
    THEN LowerAlpha[CHOOSE i \in 1..26 : UpperAlpha[i] = c]
    ELSE c

\* x.toLowerCase()
ToLowerCase(x) == [i \in 1..Len(x) |-> LowerChar(x[i])]

\* x.includes(kw)
Includes(x, kw) ==
    \E i \in 0..(Len(x) - Len(kw)) : \A j \in 1..Len(kw) : x[i + j] = kw[j]

---------------------------------------------------------------------------
(* The page: the four counters, the timestamp and the coverage line.  The  *)
(* markup itself is not part of the sources; the four elements found by id *)
(* in findDashboardElements are taken to be the page's four .stat-number   *)
(* elements, in the order approved, pending, review, rejected, and to show *)
(* the documented default counts until a batch is aggregated.  All the     *)
(* elements looked up by the scripts exist, and the coverage paragraph     *)
(* holds a "Coverage: <n> States ..." text (coverage.matches) whose claim  *)
(* count is coverage.claims.                                               *)

\* Dashboard.defaultCounts
defaultCounts == [approved |-> 234, pending |-> 156, review |-> 43, rejected |-> 12]

\* the page as served, before any script has written to it
MarkupDom ==
    [approved |-> NumToString(defaultCounts.approved),
     pending |-> NumToString(defaultCounts.pending),
     review |-> NumToString(defaultCounts.review),
     rejected |-> NumToString(defaultCounts.rejected),
     lastUpdate |-> "markup",
     coverage |-> [matches |-> TRUE, claims |-> <<>>]]

\* document.querySelectorAll('.stat-number'): the text of elements 0..3
StatNumbers(d) == <<d.approved, d.pending, d.review, d.rejected>>

---------------------------------------------------------------------------
(* Dashboard *)

Keyword_approved == <<"a", "p", "p", "r", "o", "v", "e", "d">>
Keyword_pending == <<"p", "e", "n", "d", "i", "n", "g">>
Keyword_review == <<"r", "e", "v", "i", "e", "w">>
Keyword_reject == <<"r", "e", "j", "e", "c", "t">>

\* (props.status || '').toLowerCase()
StatusOf(props) ==
    ToLowerCase(IF Truthy(props.status) THEN props.status.s ELSE <<>>)

Bump(counts, k) == [counts EXCEPT ![k] = @ + 1]

TallyNoElse(counts, status) ==
    LET c1 == IF Includes(status, Keyword_approved) THEN Bump(counts, "approved") ELSE counts
        c2 == IF Includes(status, Keyword_pending) THEN Bump(c1, "pending") ELSE c1
        c3 == IF Includes(status, Keyword_review) THEN Bump(c2, "review") ELSE c2
    IN  IF Includes(status, Keyword_reject) THEN Bump(c3, "rejected") ELSE c3

TallyReviewFirst(counts, status) ==
    IF Includes(status, Keyword_approved) THEN Bump(counts, "approved")
    ELSE IF Includes(status, Keyword_review) THEN Bump(counts, "review")
    ELSE IF Includes(status, Keyword_pending) THEN Bump(counts, "pending")
    ELSE IF Includes(status, Keyword_reject) THEN Bump(counts, "rejected")
    ELSE counts

\* the if / else-if chain of updateFromData
Tally(counts, status) ==
    IF Includes(status, Keyword_approved) THEN Bump(counts, "approved")
    ELSE IF Includes(status, Keyword_pending) THEN Bump(counts, "pending")
    ELSE IF Includes(status, Keyword_review) THEN Bump(counts, "review")
    ELSE IF Includes(status, Keyword_reject) THEN Bump(counts, "rejected")
    ELSE counts

InitialAccOffByOne ==
    [counts |-> [approved |-> 0, pending |-> 0, review |-> 0, rejected |-> 1],
     totalFamilies |-> Num(0),
     totalArea |-> Num(0)]

\* counts, totalFamilies and totalArea before the loop
InitialAcc ==
    [counts |-> [approved |-> 0, pending |-> 0, review |-> 0, rejected |-> 0],
     totalFamilies |-> Num(0),
     totalArea |-> Num(0)]

\* one iteration of features.forEach
ForEachStep(acc, feature) ==
    LET props == feature.properties
        status == StatusOf(props)
        families == OrZero(props.claimant_families)
        area == OrZero(props.area_hectares)
    IN  [counts |-> Tally(acc.counts, status),
         totalFamilies |-> JsAdd(acc.totalFamilies, families),
         totalArea |-> JsAdd(acc.totalArea, area)]

\* features.forEach(...) over features[i..]
RECURSIVE ForEach(_, _, _)
ForEach(features, i, acc) ==
    IF i > Len(features) THEN acc
    ELSE ForEach(features, i + 1, ForEachStep(acc, features[i]))

UpdateCountElementsNoop(d, counts) == d

\* Dashboard.updateCountElements
UpdateCountElements(d, counts) ==
    [d EXCEPT !.approved = NumToString(counts.approved),
              !.pending = NumToString(counts.pending),
              !.review = NumToString(counts.review),
              !.rejected = NumToString(counts.rejected)]

\* Dashboard.updateLastUpdate
UpdateLastUpdate(d) == [d EXCEPT !.lastUpdate = "updated"]

\* Dashboard.updateCoverageInfo: "Coverage: 4 States | <claimCount> Active Claims"
\* replaces the text when it holds "Coverage: <n> States ..."
UpdateCoverageInfo(d, claimCount) ==
    IF d.coverage.matches
    THEN [d EXCEPT !.coverage.claims = NumToString(claimCount)]
    ELSE d

\* totalArea.toFixed(1) raises a TypeError unless totalArea is a number
ToFixedRaises(v) == v.t \notin {"num", "nan"}

NoAgg ==
    [called |-> FALSE, features |-> <<>>, counts |-> InitialAcc.counts,
     totalFamilies |-> Num(0), totalArea |-> Num(0), raised |-> FALSE]

\* Dashboard.updateFromData: the page after the call, and the call's locals
UpdateFromData(d, features) ==
    LET acc == ForEach(features, 1, InitialAcc)
        d1 == UpdateCountElements(d, acc.counts)
        d2 == UpdateLastUpdate(d1)
        d3 == UpdateCoverageInfo(d2, Len(features))
    IN  [dom |-> d3,
         agg |-> [called |-> TRUE, features |-> features, counts |-> acc.counts,
                  totalFamilies |-> acc.totalFamilies, totalArea |-> acc.totalArea,
                  raised |-> ToFixedRaises(acc.totalArea)]]

\* Dashboard.resetToDefaults
ResetToDefaults(d) == UpdateLastUpdate(UpdateCountElements(d, defaultCounts))

\* Dashboard.getCurrentStats
GetCurrentStats(d) ==
    [approved |-> ParseInt(OrZeroText(d.approved)),
     pending |-> ParseInt(OrZeroText(d.pending)),
     review |-> ParseInt(OrZeroText(d.review)),
     rejected |-> ParseInt(OrZeroText(d.rejected))]

---------------------------------------------------------------------------
(* FRAAtlasApp: the report *)

ForestAreaSecured == 24156

\* (numer / v).toFixed(1): "Infinity" for a zero divisor, "NaN" for NaN,
\* otherwise the quotient rounded to one decimal place (ties upwards, as
\* toFixed does on the exact quotient)
DivToFixed1(numer, v) ==
    IF v.t # "num" THEN <<"N", "a", "N">>
    ELSE IF v.n = 0 THEN <<"I", "n", "f", "i", "n", "i", "t", "y">>
    ELSE LET tenths == (20 * numer + v.n) \div (2 * v.n)
         IN  NumToString(tenths \div 10) \o <<".">> \o NumToString(tenths % 10)

\* Math.random() sampled at r / RandomSamples, r in 0 .. RandomSamples - 1
RandomDraws == 0..(RandomSamples - 1)

\* Math.floor(Math.random() * span) + low
FloorRandom(r, span, low) == ((r * span) \div RandomSamples) + low

GenerateReportDataDropsRejected(d, r1, r2, r3) ==
    LET counts == StatNumbers(d)
        n(i) == ParseInt(OrZeroText(counts[i]))
    IN  [totalClaims |-> JsAdd(JsAdd(n(1), n(2)), n(3)),
         approved |-> n(1), pending |-> n(2), review |-> n(3), rejected |-> n(4),
         deforestationAlerts |-> Num(FloorRandom(r1, 8, 3)),
         highRiskAreas |-> Num(FloorRandom(r2, 5, 2)),
         ndviViolations |-> Num(FloorRandom(r3, 12, 5))]

\* FRAAtlasApp.generateReportData, given the three Math.random() draws
GenerateReportData(d, r1, r2, r3) ==
    LET counts == StatNumbers(d)
        n(i) == ParseInt(OrZeroText(counts[i]))
    IN  [totalClaims |-> JsAdd(JsAdd(JsAdd(n(1), n(2)), n(3)), n(4)),
         approved |-> n(1), pending |-> n(2), review |-> n(3), rejected |-> n(4),
         deforestationAlerts |-> Num(FloorRandom(r1, 8, 3)),
         highRiskAreas |-> Num(FloorRandom(r2, 5, 2)),
         ndviViolations |-> Num(FloorRandom(r3, 12, 5))]

\* FRAAtlasApp.createReportContent: the interpolated values of the text, by line
CreateReportContent(reportData) ==
    [totalClaims |-> JsToString(reportData.totalClaims),
     approved |-> JsToString(reportData.approved),
     pending |-> JsToString(reportData.pending),
     review |-> JsToString(reportData.review),
     rejected |-> JsToString(reportData.rejected),
     deforestationAlerts |-> JsToString(reportData.deforestationAlerts),
     highRiskAreas |-> JsToString(reportData.highRiskAreas),
     ndviViolations |-> JsToString(reportData.ndviViolations),
     averageClaimSize |-> DivToFixed1(ForestAreaSecured, reportData.totalClaims),
     recommendPending |-> JsToString(reportData.pending),
     recommendAlerts |-> JsToString(reportData.deforestationAlerts)]

NoReport ==
    [totalClaims |-> <<>>, approved |-> <<>>, pending |-> <<>>, review |-> <<>>,
     rejected |-> <<>>, deforestationAlerts |-> <<>>, highRiskAreas |-> <<>>,
     ndviViolations |-> <<>>, averageClaimSize |-> <<>>, recommendPending |-> <<>>,
     recommendAlerts |-> <<>>]

---------------------------------------------------------------------------
(* Inputs *)

Feature(status, families, area) ==
    [properties |-> [status |-> status, claimant_families |-> families,
                     area_hectares |-> area]]

Label_Approved == <<"A", "p", "p", "r", "o", "v", "e", "d">>
Label_PendingReview ==
    <<"P", "e", "n", "d", "i", "n", "g", " ", "R", "e", "v", "i", "e", "w">>
Label_UnderReview == <<"U", "n", "d", "e", "r", " ", "R", "e", "v", "i", "e", "w">>
Label_Rejected == <<"R", "e", "j", "e", "c", "t", "e", "d">>
Label_Unknown == <<"U", "n", "k", "n", "o", "w", "n">>
Label_RejectedAfterReview ==
    <<"R", "E", "J", "E", "C", "T", "E", "D", " ", "A", "F", "T", "E", "R", " ",
      "R", "E", "V", "I", "E", "W">>
Text_abc == <<"a", "b", "c">>

\* what the loader delivers to the running application
LoadedFeatures ==
    {Feature(Str(Label_Approved), Num(10), Num(2)),
     Feature(Str(Label_PendingReview), Num(5), Num(3)),
     Feature(Str(Label_Unknown), Undefined, Undefined),
     Feature(Str(Label_Rejected), Num(2), Str(Text_abc))}

StatusValues ==
    {Str(Label_Approved), Str(Label_PendingReview), Str(Label_UnderReview),
     Str(Label_Rejected), Str(Label_Unknown), Str(Label_RejectedAfterReview),
     Undefined}

\* (claimant_families, area_hectares): valid, missing, non-numeric
FieldValues ==
    {<<Num(10), Num(2)>>, <<Undefined, Undefined>>, <<Str(Text_abc), Num(0)>>,
     <<Num(5), Str(Text_abc)>>}

AggFeatures == {Feature(st, f[1], f[2]) : st \in StatusValues, f \in FieldValues}

SeqsUpTo(S, k) == UNION {[1..m -> S] : m \in 0..k}

LoadedBatches == SeqsUpTo(LoadedFeatures, MaxBatch)
AggBatches == SeqsUpTo(AggFeatures, MaxAggBatch)

---------------------------------------------------------------------------
(* FRAAtlasApp: init, load, export *)

Init ==
    /\ pc = "init"
    /\ listeners = FALSE
    /\ loadedData = <<>>
    /\ dom = MarkupDom
    /\ agg = NoAgg
    /\ input = <<>>
    /\ clicks = 0
    /\ built = 0
    /\ report = NoReport
    /\ errorAlerts = 0
    /\ spinner = "markup"

\* showError: one alert
ShowError == errorAlerts' = errorAlerts + 1

\* init, lines 23-27: the components are set up and the listeners registered
InitializeComponents ==
    /\ pc = "init"
    /\ pc' = "loading"
    /\ listeners' = TRUE
    /\ UNCHANGED <<loadedData, dom, agg, input, clicks, built, report, errorAlerts,
                   spinner>>

\* init: a component constructor throws before the listeners are registered
InitializeComponentsThrows ==
    /\ pc = "init"
    /\ pc' = "failed"
    /\ ShowError
    /\ UNCHANGED <<listeners, loadedData, dom, agg, input, clicks, built, report,
                   spinner>>

ShouldAggregateAlways(data) == TRUE

\* loadMultiStateData: this.loadedData.length > 0
ShouldAggregate(data) == Len(data) > 0

\* loadMultiStateData after the await, and the rest of init
LoadResolves(batch) ==
    /\ pc = "loading"
    /\ loadedData' = batch
    /\ IF ShouldAggregate(batch)
       THEN LET r == UpdateFromData(dom, batch)
            IN  /\ dom' = r.dom
                /\ agg' = r.agg
                /\ IF r.agg.raised
                   THEN pc' = "failed" /\ ShowError
                   ELSE pc' = "ready" /\ UNCHANGED errorAlerts
       ELSE /\ pc' = "ready"
            /\ UNCHANGED <<dom, agg, errorAlerts>>
    /\ UNCHANGED <<listeners, input, clicks, built, report, spinner>>

\* the awaited loadStateData rejects: init's catch
LoadRejects ==
    /\ pc = "loading"
    /\ pc' = "failed"
    /\ ShowError
    /\ UNCHANGED <<listeners, loadedData, dom, agg, input, clicks, built, report,
                   spinner>>

\* exportReport up to setTimeout
ExportClick ==
    /\ listeners
    /\ clicks < MaxExports
    /\ clicks' = clicks + 1
    /\ spinner' = "block"
    /\ UNCHANGED <<pc, listeners, loadedData, dom, agg, input, built, report,
                   errorAlerts>>

\* exportReport's timer callback, 2000 ms later: the report is built from the
\* page as it stands now and handed to the download (the success alert that
\* follows 500 ms later changes nothing the model tracks)
ExportTimer(r1, r2, r3) ==
    /\ built < clicks
    /\ spinner' = "none"
    /\ report' = CreateReportContent(GenerateReportData(dom, r1, r2, r3))
    /\ built' = built + 1
    /\ UNCHANGED <<pc, listeners, loadedData, dom, agg, input, clicks, errorAlerts>>

Load == \E batch \in LoadedBatches : LoadResolves(batch)

Export ==
    \E r1 \in RandomDraws, r2 \in RandomDraws, r3 \in RandomDraws :
        ExportTimer(r1, r2, r3)

Next ==
    \/ InitializeComponents
    \/ InitializeComponentsThrows
    \/ LoadRejects
    \/ Load
    \/ ExportClick
    \/ Export

Spec == Init /\ [][Next]_vars

---------------------------------------------------------------------------
(* Dashboard called directly *)

InitAgg ==
    /\ pc = "dashboard"
    /\ listeners = FALSE
    /\ loadedData = <<>>
    /\ dom = MarkupDom
    /\ agg = NoAgg
    /\ input \in AggBatches
    /\ clicks = 0
    /\ built = 0
    /\ report = NoReport
    /\ errorAlerts = 0
    /\ spinner = "markup"

\* dashboard.updateFromData(input)
CallUpdateFromData ==
    /\ pc \in {"dashboard", "reset"}
    /\ LET r == UpdateFromData(dom, input)
       IN  dom' = r.dom /\ agg' = r.agg
    /\ pc' = "updated"
    /\ UNCHANGED <<listeners, loadedData, input, clicks, built, report, errorAlerts,
                   spinner>>

\* dashboard.resetToDefaults()
CallResetToDefaults ==
    /\ pc \in {"dashboard", "updated"}
    /\ dom' = ResetToDefaults(dom)
    /\ pc' = "reset"
    /\ UNCHANGED <<listeners, loadedData, agg, input, clicks, built, report,
                   errorAlerts, spinner>>

NextAgg == CallUpdateFromData \/ CallResetToDefaults

SpecAgg == InitAgg /\ [][NextAgg]_vars

---------------------------------------------------------------------------
(* Properties *)

Categories == {"approved", "pending", "review", "rejected"}

\* the four counters shown on the page, as numbers
Shown(cat) == GetCurrentStats(dom)[cat]
ShownSum == Shown("approved").n + Shown("pending").n + Shown("review").n
            + Shown("rejected").n

\* the records of a batch whose lower-cased status holds none of the keywords
Unmatched(features) ==
    {i \in 1..Len(features) :
        LET st == StatusOf(features[i].properties)
        IN  /\ ~Includes(st, Keyword_approved)
            /\ ~Includes(st, Keyword_pending)
            /\ ~Includes(st, Keyword_review)
            /\ ~Includes(st, Keyword_reject)}

\* the priority order of the categories, with their keywords
PriorityOrder ==
    <<[kw |-> Keyword_approved, cat |-> "approved"],
      [kw |-> Keyword_pending, cat |-> "pending"],
      [kw |-> Keyword_review, cat |-> "review"],
      [kw |-> Keyword_reject, cat |-> "rejected"]>>

\* the earliest category of the order whose keyword occurs in the label
EarliestCategory(st) ==
    LET hits == {i \in 1..Len(PriorityOrder) : Includes(st, PriorityOrder[i].kw)}
    IN  IF hits = {} THEN "none"
        ELSE PriorityOrder[CHOOSE i \in hits : \A j \in hits : i <= j].cat

\* C1: after updateFromData(B) the four visible counters plus the number of
\* records matching no keyword equal len(B); no record is counted twice, and the
\* total feature count shown on the coverage line is len(B), unmatched included.
C1_CountersPlusUnmatchedIsBatchSize ==
    pc = "updated" =>
        /\ \A cat \in Categories : Shown(cat).t = "num"
        /\ ShownSum + Cardinality(Unmatched(agg.features)) = Len(agg.features)
        /\ ShownSum <= Len(agg.features)
        /\ dom.coverage.claims = NumToString(Len(agg.features))
        /\ \A cat \in Categories : Shown(cat).n = agg.counts[cat]

C1_Witness ==
    /\ pc = "updated"
    /\ Len(agg.features) = 2
    /\ Cardinality(Unmatched(agg.features)) = 1
    /\ ShownSum = 1
    /\ dom.coverage.claims = <<"2">>

\* C2: the bucket of every record is the earliest category, in the order
\* approved, pending, review, reject, whose keyword occurs in the lower-cased
\* label; "Pending Review" counts as pending and never as review.
C2_FirstMatchDecidesBucket ==
    pc = "updated" =>
        /\ \A cat \in Categories :
              Shown(cat).n =
                  Cardinality({i \in 1..Len(agg.features) :
                      EarliestCategory(StatusOf(agg.features[i].properties)) = cat})
        /\ (\A i \in 1..Len(agg.features) :
               agg.features[i].properties.status = Str(Label_PendingReview))
           => Shown("pending").n = Len(agg.features) /\ Shown("review").n = 0

C2_Witness ==
    /\ pc = "updated"
    /\ Len(agg.features) = 2
    /\ agg.features[1].properties.status = Str(Label_PendingReview)
    /\ agg.features[2].properties.status = Str(Label_RejectedAfterReview)
    /\ Shown("pending").n = 1
    /\ Shown("review").n = 1
    /\ Shown("rejected").n = 0

\* C3: every report carries the counters of the most recently rendered
\* aggregation, as they stand when the export timer fires.
C3_ReportCarriesLatestAggregation ==
    [][(built' = built + 1 /\ agg.called) =>
          /\ report'.approved = NumToString(agg.counts.approved)
          /\ report'.pending = NumToString(agg.counts.pending)
          /\ report'.review = NumToString(agg.counts.review)
          /\ report'.rejected = NumToString(agg.counts.rejected)
          /\ report'.recommendPending = NumToString(agg.counts.pending)]_vars

C3_Witness ==
    /\ built > 0
    /\ agg.called
    /\ agg.counts.approved = 1
    /\ agg.counts.pending = 1
    /\ report.approved = <<"1">>
    /\ report.pending = <<"1">>
    /\ report.review = <<"0">>
    /\ report.rejected = <<"0">>

\* C4 (as claimed): with a total of 0 the average-claim-size line shows a
\* defined fallback, not the result of dividing 24156 by 0.
C4_ZeroTotalShowsFallback ==
    (built > 0 /\ report.totalClaims = <<"0">>) =>
        report.averageClaimSize \notin
            {<<"I", "n", "f", "i", "n", "i", "t", "y">>, <<"N", "a", "N">>}

\* the four .stat-number values as read when a report is built
Snapshot(d) == [i \in 1..4 |-> ParseInt(OrZeroText(StatNumbers(d)[i]))]

\* C5: the total-claims line is the sum of the four category lines, all read
\* from the page as it stands when the report is built; the approved line is
\* that page's approved counter.
C5_TotalIsSumOfOneSnapshot ==
    [][built' = built + 1 =>
          /\ report'.approved = JsToString(Snapshot(dom)[1])
          /\ report'.pending = JsToString(Snapshot(dom)[2])
          /\ report'.review = JsToString(Snapshot(dom)[3])
          /\ report'.rejected = JsToString(Snapshot(dom)[4])
          /\ ParseInt(report'.totalClaims) =
                Num(ParseInt(report'.approved).n + ParseInt(report'.pending).n
                    + ParseInt(report'.review).n + ParseInt(report'.rejected).n)]_vars

C5_Witness ==
    /\ built > 0
    /\ ParseInt(report.approved).n > 0
    /\ ParseInt(report.pending).n > 0
    /\ ParseInt(report.totalClaims).n
          = ParseInt(report.approved).n + ParseInt(report.pending).n

\* the sum of the numeric values of a field over a batch
RECURSIVE SumValid(_, _, _)
SumValid(features, field, i) ==
    IF i > Len(features) THEN 0
    ELSE LET v == features[i].properties[field]
         IN  (IF v.t = "num" THEN v.n ELSE 0) + SumValid(features, field, i + 1)

\* C6 (as claimed): updateFromData never raises on a missing or non-numeric
\* families or area field; such a field adds 0 and the accumulators are the
\* sums of the valid values.
C6_MalformedFieldsCountAsZero ==
    pc = "updated" =>
        /\ ~agg.raised
        /\ agg.totalFamilies = Num(SumValid(agg.features, "claimant_families", 1))
        /\ agg.totalArea = Num(SumValid(agg.features, "area_hectares", 1))

C8_EmptyBatchYieldsZeros ==
    (pc = "updated" /\ Len(agg.features) = 0) =>
        /\ ~agg.raised
        /\ \A cat \in Categories : agg.counts[cat] = 0 /\ Shown(cat) = Num(0)
        /\ agg.totalFamilies = Num(0)
        /\ agg.totalArea = Num(0)
        /\ dom.coverage.claims = <<"0">>

C8_Witness ==
    /\ pc = "updated"
    /\ Len(input) = 0
    /\ Len(agg.features) = 0
    /\ agg.called
    /\ dom.approved = <<"0">>

\* C9 (as claimed): once init has failed there is exactly one error
\* notification and nothing more happens: no counter is rendered and no
\* report is produced.
C9_FailedInitHalts ==
    [][pc = "failed" =>
          /\ errorAlerts = 1
          /\ errorAlerts' = errorAlerts
          /\ dom' = dom
          /\ built' = built
          /\ report' = report]_vars

\* C10 (as claimed): the divisor of the average claim size is the batch size
\* of the latest aggregation, batches with unmatched records included (stated
\* for the batches that leave a non-zero total on the page, where the
\* quotient is a number).
C10_AverageDividesByBatchSize ==
    [][(built' = built + 1 /\ agg.called /\ ShownSum > 0) =>
          report'.averageClaimSize =
              DivToFixed1(ForestAreaSecured, Num(Len(agg.features)))]_vars

=============================================================================
